---------------------------- MODULE Spec2Model ----------------------------
(***************************************************************************)
(* A model of swift-syntax-test (tools/swift-syntax-test): the driver that *)
(* lexes or parses a .swift file with full fidelity, prints it back,       *)
(* serializes or deserializes its raw syntax tree, and reparses a file     *)
(* incrementally from an old syntax tree and a list of edits.              *)
(*                                                                         *)
(* The driver's functions are modelled from swift-syntax-test.cpp.  The    *)
(* library it calls (lexer, parser, raw syntax, absolute positions, the    *)
(* syntax parsing cache, the JSON codec, the source manager) is not part   *)
(* of the file and is modelled from the specification's sections 3 to 6.   *)
(***************************************************************************)
EXTENDS Integers, Sequences, FiniteSets, TLC

\* ------------------------------------------------------------------ text
\* A source buffer is a sequence of one-character strings.

NL == "\n"

SP == " "

\* The bytes a source buffer is made of: an identifier character, an
\* operator, the comment/operator character, a character no token starts
\* with, a space and a newline.
Alphabet == {"a", "+", "/", "#", SP, NL}

\* The bytes of the buffers of an incremental reparse.
IncrAlphabet == {"a", "+", SP, NL}

\* Longest source buffer.
MaxLen == 3

\* Longest pre-edit source buffer of an incremental reparse.
MaxOldLen == 3

SeqsUpTo(S, n) == UNION {[1..k -> S] : k \in 0..n}

Buffers == SeqsUpTo(Alphabet, MaxLen)

Min(a, b) == IF a < b THEN a ELSE b

Max(a, b) == IF a > b THEN a ELSE b

\* llvm::StringRef::substr(Start, N): clamped to the string.
Substr(s, start, n) ==
  LET st == Min(start, Len(s))
      en == IF n >= Len(s) - st THEN Len(s) ELSE st + Max(n, 0)
  IN  SubSeq(s, st + 1, en)

Repeat(c, n) == [i \in 1..n |-> c]

RECURSIVE Concat(_)
Concat(ss) == IF ss = <<>> THEN <<>> ELSE Head(ss) \o Concat(Tail(ss))

\* -------------------------------------------------------- trivia, tokens
\* Section 3: a trivia piece is a tag with a repeat count or a literal text.

Piece(kind, count, text) == [kind |-> kind, count |-> count, text |-> text]

PieceText(p) ==
  CASE p.kind = "Space" -> Repeat(SP, p.count)
    [] p.kind = "Newline" -> Repeat(NL, p.count)
    [] OTHER -> p.text

RECURSIVE TriviaText(_)
TriviaText(ps) ==
  IF ps = <<>> THEN <<>> ELSE PieceText(Head(ps)) \o TriviaText(Tail(ps))

IsCommentStart(S, i) == i + 1 <= Len(S) /\ S[i] = "/" /\ S[i + 1] = "/"

\* First index at or after i that holds a newline (Len(S) + 1 if none).
RECURSIVE LineEnd(_, _)
LineEnd(S, i) ==
  IF i > Len(S) \/ S[i] = NL THEN i ELSE LineEnd(S, i + 1)

\* First index at or after i that does not hold c.
RECURSIVE RunEnd(_, _, _)
RunEnd(S, i, c) ==
  IF i > Len(S) \/ S[i] # c THEN i ELSE RunEnd(S, i + 1, c)

\* Section 4.1: the trivia pieces starting at index i, with the index after
\* them.  Leading trivia takes spaces, newlines and comments; trailing
\* trivia stops at the first newline.
RECURSIVE LexTrivia(_, _, _)
LexTrivia(S, i, isTrailing) ==
  IF i > Len(S) THEN [pieces |-> <<>>, next |-> i]
  ELSE IF S[i] = SP THEN
    LET j == RunEnd(S, i, SP)
        r == LexTrivia(S, j, isTrailing)
    IN  [pieces |-> <<Piece("Space", j - i, <<>>)>> \o r.pieces, next |-> r.next]
  ELSE IF S[i] = NL /\ ~isTrailing THEN
    LET j == RunEnd(S, i, NL)
        r == LexTrivia(S, j, isTrailing)
    IN  [pieces |-> <<Piece("Newline", j - i, <<>>)>> \o r.pieces, next |-> r.next]
  ELSE IF IsCommentStart(S, i) THEN
    LET j == LineEnd(S, i)
        r == LexTrivia(S, j, isTrailing)
    IN  [pieces |-> <<Piece("LineComment", 1, SubSeq(S, i, j - 1))>> \o r.pieces,
         next |-> r.next]
  ELSE [pieces |-> <<>>, next |-> i]

\* The significant text starting at index i: an identifier is a run of
\* identifier characters, anything else is one character, the end of the
\* buffer is the zero-width EOF token.
LexCore(S, i) ==
  IF i > Len(S) THEN [kind |-> "eof", next |-> i]
  ELSE IF S[i] = "a" THEN [kind |-> "identifier", next |-> RunEnd(S, i, "a")]
  ELSE IF S[i] \in {"+", "/"} THEN [kind |-> "operator", next |-> i + 1]
  ELSE [kind |-> "unknown", next |-> i + 1]

\* Section 3: a raw node is a Token, a Layout or a missing child.
Token(kind, leading, text, trailing) ==
  [type |-> "Token", kind |-> kind, leading |-> leading, text |-> text,
   trailing |-> trailing, children |-> <<>>]

Layout(kind, children) ==
  [type |-> "Layout", kind |-> kind, leading |-> <<>>, text |-> <<>>,
   trailing |-> <<>>, children |-> children]

Missing ==
  [type |-> "Missing", kind |-> "missing", leading |-> <<>>, text |-> <<>>,
   trailing |-> <<>>, children |-> <<>>]

\* tokenizeWithTrivia: the tokens of S from index i on, the EOF token last.
RECURSIVE LexFrom(_, _)
LexFrom(S, i) ==
  LET lead == LexTrivia(S, i, FALSE)
      core == LexCore(S, lead.next)
      trail == IF core.kind = "eof" THEN [pieces |-> <<>>, next |-> core.next]
               ELSE LexTrivia(S, core.next, TRUE)
      tok == Token(core.kind, lead.pieces,
                   SubSeq(S, lead.next, core.next - 1), trail.pieces)
  IN  IF core.kind = "eof" THEN <<tok>> ELSE <<tok>> \o LexFrom(S, trail.next)

tokenizeWithTrivia(S) == LexFrom(S, 1)

\* ------------------------------------------------------- raw syntax tree
\* SyntaxPrintOptions: the default-constructed value prints the source only.
PrintOptions(visual, printSyntaxKind, printTrivialNodeKind) ==
  [Visual |-> visual, PrintSyntaxKind |-> printSyntaxKind,
   PrintTrivialNodeKind |-> printTrivialNodeKind]

DefaultPrintOptions == PrintOptions(FALSE, FALSE, FALSE)

TokenText(t) == TriviaText(t.leading) \o t.text \o TriviaText(t.trailing)

\* Section 4.2: print(node) concatenates, in order, every token's leading
\* trivia, text and trailing trivia.  With PrintSyntaxKind a Layout node is
\* bracketed by its kind (a token too with PrintTrivialNodeKind); in Visual
\* mode a missing child leaves a mark.
RECURSIVE PrintNode(_, _)
PrintNode(n, opts) ==
  CASE n.type = "Missing" -> IF opts.Visual THEN <<"?">> ELSE <<>>
    [] n.type = "Token" ->
         IF opts.PrintSyntaxKind /\ opts.PrintTrivialNodeKind
         THEN <<"<", n.kind, ">">> \o TokenText(n) \o <<"</", n.kind, ">">>
         ELSE TokenText(n)
    [] OTHER ->
         LET body == Concat([i \in 1..Len(n.children) |->
                              PrintNode(n.children[i], opts)])
         IN  IF opts.PrintSyntaxKind
             THEN <<"<", n.kind, ">">> \o body \o <<"</", n.kind, ">">>
             ELSE body

RECURSIVE SumSeq(_)
SumSeq(s) == IF s = <<>> THEN 0 ELSE Head(s) + SumSeq(Tail(s))

\* Section 3: the width of a token is the sum of its three parts, the width
\* of a Layout node the sum of its children's, a missing child has none.
RECURSIVE Width(_)
Width(n) ==
  CASE n.type = "Missing" -> 0
    [] n.type = "Token" ->
         Len(TriviaText(n.leading)) + Len(n.text) + Len(TriviaText(n.trailing))
    [] OTHER -> SumSeq([i \in 1..Len(n.children) |-> Width(n.children[i])])

\* The tokens of a tree, left to right.
RECURSIVE TokensOf(_)
TokensOf(n) ==
  CASE n.type = "Missing" -> <<>>
    [] n.type = "Token" -> <<n>>
    [] OTHER -> Concat([i \in 1..Len(n.children) |-> TokensOf(n.children[i])])

IsOperand(t) == t.kind \in {"identifier", "unknown"}

\* The external parser (section 6), reduced to one production: operands
\* joined by an operator form a BinaryExpr, whose absent operands are
\* missing children; a lone operand is an item by itself.
RECURSIVE ParseItems(_)
ParseItems(ts) ==
  IF ts = <<>> THEN <<>>
  ELSE IF ts[1].kind = "operator" THEN
    IF Len(ts) >= 2 /\ IsOperand(ts[2])
    THEN <<Layout("BinaryExpr", <<Missing, ts[1], ts[2]>>)>>
         \o ParseItems(SubSeq(ts, 3, Len(ts)))
    ELSE <<Layout("BinaryExpr", <<Missing, ts[1], Missing>>)>>
         \o ParseItems(Tail(ts))
  ELSE IF Len(ts) >= 2 /\ ts[2].kind = "operator" THEN
    IF Len(ts) >= 3 /\ IsOperand(ts[3])
    THEN <<Layout("BinaryExpr", <<ts[1], ts[2], ts[3]>>)>>
         \o ParseItems(SubSeq(ts, 4, Len(ts)))
    ELSE <<Layout("BinaryExpr", <<ts[1], ts[2], Missing>>)>>
         \o ParseItems(SubSeq(ts, 3, Len(ts)))
  ELSE <<ts[1]>> \o ParseItems(Tail(ts))

\* The syntax root of a source buffer: the items and the EOF token.
ParseSource(S) ==
  LET ts == tokenizeWithTrivia(S)
  IN  Layout("SourceFile",
             <<Layout("CodeBlockItemList", ParseItems(SubSeq(ts, 1, Len(ts) - 1))),
               ts[Len(ts)]>>)

\* ---------------------------------------------------- absolute positions
\* Section 4.3: offset, line and column, accumulated from widths and
\* newline counts.
StartPosition == [offset |-> 0, line |-> 1, column |-> 1]

RECURSIVE AccumulateText(_, _)
AccumulateText(pos, text) ==
  IF text = <<>> THEN pos
  ELSE AccumulateText(
         IF Head(text) = NL
         THEN [offset |-> pos.offset + 1, line |-> pos.line + 1, column |-> 1]
         ELSE [offset |-> pos.offset + 1, line |-> pos.line,
               column |-> pos.column + 1],
         Tail(text))

AccumulatePiece(pos, p) ==
  CASE p.kind = "Space" ->
         [offset |-> pos.offset + p.count, line |-> pos.line,
          column |-> pos.column + p.count]
    [] p.kind = "Newline" ->
         [offset |-> pos.offset + p.count, line |-> pos.line + p.count,
          column |-> 1]
    [] OTHER -> AccumulateText(pos, p.text)

RECURSIVE AccumulateTrivia(_, _)
AccumulateTrivia(pos, ps) ==
  IF ps = <<>> THEN pos
  ELSE AccumulateTrivia(AccumulatePiece(pos, Head(ps)), Tail(ps))

AccumulateToken(pos, t) ==
  AccumulateTrivia(AccumulateText(AccumulateTrivia(pos, t.leading), t.text),
                   t.trailing)

RECURSIVE AccumulateTokens(_, _)
AccumulateTokens(pos, ts) ==
  IF ts = <<>> THEN pos
  ELSE AccumulateTokens(AccumulateToken(pos, Head(ts)), Tail(ts))

\* getAbsolutePosition of the k-th token of a tree: everything before the
\* token, then its own leading trivia.
AbsolutePositionOfToken(root, k) ==
  LET ts == TokensOf(root)
  IN  AccumulateTrivia(AccumulateTokens(StartPosition, SubSeq(ts, 1, k - 1)),
                       ts[k].leading)

\* getEOFToken().getAbsolutePosition()
EOFAbsolutePosition(root) == AbsolutePositionOfToken(root, Len(TokensOf(root)))

\* -------------------------------------------------------- source manager
\* SourceManager::getLineAndColumn of a byte offset: a scan of the buffer.
getLineAndColumn(S, offset) ==
  LET before == Substr(S, 0, offset)
      nls == {i \in 1..Len(before) : before[i] = NL}
      lastNl == IF nls = {} THEN 0
                ELSE CHOOSE i \in nls : \A j \in nls : j <= i
  IN  [line |-> 1 + Cardinality(nls), column |-> Len(before) - lastNl + 1]

\* No location: what getLocForLineCol gives for a line or column the buffer
\* does not have.
InvalidLoc == -1

\* SourceManager::getLocForLineCol followed by getLocOffsetInBuffer: the
\* byte offset of a one-based line and column of the buffer.  A column may
\* name the line's newline or the end of the buffer, nothing beyond.
getLocForLineCol(S, line, col) ==
  LET nls == {i \in 1..Len(S) : S[i] = NL}
      before == {i \in nls : Cardinality({j \in nls : j <= i}) = line - 1}
      lineStart == IF line = 1 THEN 0 ELSE CHOOSE i \in before : TRUE
      lineEnd == LineEnd(S, lineStart + 1) - 1
  IN  IF line < 1 \/ col < 1 \/ (line > 1 /\ before = {}) THEN InvalidLoc
      ELSE IF lineStart + col - 1 > lineEnd THEN InvalidLoc
      ELSE lineStart + col - 1

\* ----------------------------------------------------- interchange codec
\* Section 3: every Token and Layout node becomes a record with its kind
\* tag, its children in order (a missing child has a marker of its own),
\* its trivia and its width.  The document lists the records in preorder.
TokenKinds == {"identifier", "operator", "unknown", "eof"}

LayoutKinds == {"SourceFile", "CodeBlockItemList", "BinaryExpr"}

DocRecord(tag, kind, count, width, leading, text, trailing) ==
  [tag |-> tag, kind |-> kind, count |-> count, width |-> width,
   leading |-> leading, text |-> text, trailing |-> trailing]

RECURSIVE Serialize(_)
Serialize(n) ==
  CASE n.type = "Missing" ->
         <<DocRecord("missing", "missing", 0, 0, <<>>, <<>>, <<>>)>>
    [] n.type = "Token" ->
         <<DocRecord("token", n.kind, 0, Width(n), n.leading, n.text, n.trailing)>>
    [] OTHER ->
         <<DocRecord("layout", n.kind, Len(n.children), Width(n), <<>>, <<>>, <<>>)>>
         \o Concat([i \in 1..Len(n.children) |-> Serialize(n.children[i])])

DecodeFailure == [ok |-> FALSE, node |-> Missing, nodes |-> <<>>, next |-> 0]

\* The node whose record is at index i of the document, with the index
\* after its last record; no node when the record is absent, its kind tag
\* unknown, or its width not that of what it holds.
RECURSIVE DecodeNode(_, _)
RECURSIVE DecodeChildren(_, _, _)
DecodeNode(doc, i) ==
  IF i > Len(doc) THEN DecodeFailure
  ELSE LET r == doc[i] IN
    CASE r.tag = "missing" ->
           [ok |-> TRUE, node |-> Missing, nodes |-> <<>>, next |-> i + 1]
      [] r.tag = "token" ->
           LET t == Token(r.kind, r.leading, r.text, r.trailing)
           IN  IF r.kind \in TokenKinds /\ r.width = Width(t)
               THEN [ok |-> TRUE, node |-> t, nodes |-> <<>>, next |-> i + 1]
               ELSE DecodeFailure
      [] r.tag = "layout" ->
           LET cs == DecodeChildren(doc, i + 1, r.count)
               n == Layout(r.kind, cs.nodes)
           IN  IF r.kind \in LayoutKinds /\ cs.ok /\ r.width = Width(n)
               THEN [ok |-> TRUE, node |-> n, nodes |-> <<>>, next |-> cs.next]
               ELSE DecodeFailure
      [] OTHER -> DecodeFailure

DecodeChildren(doc, i, count) ==
  IF count = 0 THEN [ok |-> TRUE, node |-> Missing, nodes |-> <<>>, next |-> i]
  ELSE LET first == DecodeNode(doc, i) IN
    IF ~first.ok THEN DecodeFailure
    ELSE LET rest == DecodeChildren(doc, first.next, count - 1) IN
      IF ~rest.ok THEN DecodeFailure
      ELSE [ok |-> TRUE, node |-> Missing,
            nodes |-> <<first.node>> \o rest.nodes, next |-> rest.next]

\* SyntaxDeserializer::getSourceFileSyntax: the tree of a document, if the
\* whole document decodes to a SourceFile node.
getSourceFileSyntax(doc) ==
  LET r == DecodeNode(doc, 1)
  IN  IF r.ok /\ r.next = Len(doc) + 1 /\ r.node.kind = "SourceFile"
      THEN [hasValue |-> TRUE, value |-> r.node]
      ELSE [hasValue |-> FALSE, value |-> Missing]

\* ------------------------------------------------ syntax parsing cache
\* Section 3: an edit is a byte range of the old source and the length of
\* its replacement.
Edit(start, end, replacementLength) ==
  [start |-> start, end |-> end, replacementLength |-> replacementLength]

\* Section 4.4, Failure: an edit outside the old buffer, or edits that
\* overlap or are not in increasing order, are malformed.
EditsWellFormed(edits, oldLen) ==
  /\ \A i \in 1..Len(edits) :
       0 <= edits[i].start /\ edits[i].start <= edits[i].end
       /\ edits[i].end <= oldLen
  /\ \A i \in 1..Len(edits) : \A j \in 1..Len(edits) :
       i < j => edits[i].end <= edits[j].start

\* The edit shares a byte, or an insertion point, with the old range.
EditTouches(e, start, end) == e.start < end /\ e.end > start

\* The running delta at an old offset: replacementLength - (end - start)
\* summed over the edits that end at or before it.
RECURSIVE DeltaAt(_, _)
DeltaAt(edits, pos) ==
  IF edits = <<>> THEN 0
  ELSE (IF Head(edits).end <= pos
        THEN Head(edits).replacementLength - (Head(edits).end - Head(edits).start)
        ELSE 0) + DeltaAt(Tail(edits), pos)

ReuseRegion(oldStart, oldEnd, delta) ==
  [oldStart |-> oldStart, oldEnd |-> oldEnd,
   first |-> oldStart + delta, second |-> oldEnd + delta]

\* A mutant of ReuseWalk: the walk goes down to the tokens whatever the
\* edits, and reports each untouched token by itself.
RECURSIVE ReuseWalkFinest(_, _, _)
RECURSIVE ReuseWalkFinestChildren(_, _, _)
ReuseWalkFinest(n, pos, edits) ==
  LET w == Width(n) IN
  IF w = 0 THEN <<>>
  ELSE IF n.type = "Layout" THEN ReuseWalkFinestChildren(n.children, pos, edits)
  ELSE IF \A i \in 1..Len(edits) : ~EditTouches(edits[i], pos, pos + w)
  THEN <<ReuseRegion(pos, pos + w, DeltaAt(edits, pos))>>
  ELSE <<>>

ReuseWalkFinestChildren(cs, pos, edits) ==
  IF cs = <<>> THEN <<>>
  ELSE ReuseWalkFinest(Head(cs), pos, edits)
       \o ReuseWalkFinestChildren(Tail(cs), pos + Width(Head(cs)), edits)

\* The depth-first walk of the old tree from the node at old offset pos: a
\* node no edit touches is one region and its children are not visited; a
\* touched Layout node hands over to its children; nodes without width
\* give nothing.
RECURSIVE ReuseWalk(_, _, _)
RECURSIVE ReuseWalkChildren(_, _, _)
ReuseWalk(n, pos, edits) ==
  LET w == Width(n) IN
  IF w = 0 THEN <<>>
  ELSE IF \A i \in 1..Len(edits) : ~EditTouches(edits[i], pos, pos + w)
  THEN <<ReuseRegion(pos, pos + w, DeltaAt(edits, pos))>>
  ELSE IF n.type = "Layout" THEN ReuseWalkChildren(n.children, pos, edits)
  ELSE <<>>

ReuseWalkChildren(cs, pos, edits) ==
  IF cs = <<>> THEN <<>>
  ELSE ReuseWalk(Head(cs), pos, edits)
       \o ReuseWalkChildren(Tail(cs), pos + Width(Head(cs)), edits)

\* A mutant of ComputeReuseRegions: the edits are not validated.
ComputeReuseRegionsUnchecked(oldTree, edits) == ReuseWalk(oldTree, 0, edits)

\* computeReuseRanges: nothing is reusable when the edits are malformed.
ComputeReuseRegions(oldTree, edits) ==
  IF ~EditsWellFormed(edits, Width(oldTree)) THEN <<>>
  ELSE ReuseWalk(oldTree, 0, edits)

\* A parsing cache: an old tree, the edits added so far, and the regions
\* the parse reused.
SyntaxParsingCache(oldTree) ==
  [oldTree |-> oldTree, edits |-> <<>>, reused |-> <<>>,
   malformedEdit |-> FALSE, null |-> FALSE]

addEdit(cache, start, end, replacementLength) ==
  [cache EXCEPT !.edits = Append(@, Edit(start, end, replacementLength))]

\* What the parse leaves in the cache it consulted.
resolveReuse(cache) ==
  [cache EXCEPT
     !.reused = ComputeReuseRegions(cache.oldTree, cache.edits),
     !.malformedEdit = ~EditsWellFormed(cache.edits, Width(cache.oldTree))]

\* getReusedRanges: the (start, end) pairs in the new buffer.
getReusedRanges(cache) ==
  [i \in 1..Len(cache.reused) |->
     [first |-> cache.reused[i].first, second |-> cache.reused[i].second]]

\* ---------------------------------------------------------- the driver
EXIT_SUCCESS == 0

EXIT_FAILURE == 1

\* std::numeric_limits<int>::max(): getAsInteger fails beyond it.
INT_MAX == 2147483647

\* An unsigned difference a - b.  Below zero it wraps to 2^32 - (b - a),
\* beyond the integers of the model checker and beyond every buffer: it
\* stands as the largest integer, which substr clamps all the same.
UnsignedDifference(a, b) == IF a >= b THEN a - b ELSE INT_MAX

ActionType ==
  {"DumpRawTokenSyntax", "FullLexRoundTrip", "FullParseRoundTrip",
   "SerializeRawTree", "DeserializeRawTree", "ParseOnly", "ParserGen",
   "EOFPos", "None"}

VARIABLES
  options,      \* namespace options: the parsed command line
  env,          \* what the files named on the command line hold
  pc,           \* where the process is
  ExitCode,     \* main's ExitCode
  dirEntries,   \* the entries the directory iterator has not reached yet
  input,        \* the input file of the current invokeCommand
  SyntaxCache,  \* parseFile's SyntaxCache (NoCache: the null pointer)
  editIndex,    \* parseIncrementalEditArguments: the next edit pattern
  SF,           \* the SourceFile's syntax root after performParseOnly
  io,           \* what the current invokeCommand has written
  run,          \* what main has done so far
  arena,        \* the raw node instances, each at the place that is its identity
  replaced      \* the last withReplacedChild: its arguments and its result

vars ==
  <<options, env, pc, ExitCode, dirEntries, input, SyntaxCache, editIndex,
    SF, io, run, arena, replaced>>

NoCache == [oldTree |-> Missing, edits |-> <<>>, reused |-> <<>>,
            malformedEdit |-> FALSE, null |-> TRUE]

NoTree == Missing

NoFile == [readable |-> FALSE, content |-> <<>>]

File(content) == [readable |-> TRUE, content |-> content]

\* Nothing written: llvm::outs(), the JSON document and where it went, the
\* output file of deserialize-raw-tree, the token dump, the reuse log, the
\* last message on llvm::errs(), the regions the visual rendering printed
\* as reparsed, and what parseFile has done.
EmptyIO ==
  [out |-> <<>>, json |-> <<>>, jsonTo |-> "none", file |-> <<>>,
   dump |-> <<>>, log |-> <<>>, errs |-> "", reparsed |-> <<>>,
   trace |-> <<>>]

Options(action, file, dir) ==
  [Action |-> action, InputSourceFilename |-> file,
   InputSourceDirectory |-> dir, OldSyntaxTreeFilename |-> "",
   IncrementalEdits |-> <<>>, IncrementalReuseLog |-> "",
   OutputFilename |-> "", PrintVisualReuseInfo |-> FALSE,
   PrintNodeKind |-> FALSE, PrintTrivialNodeKind |-> FALSE,
   VerifySyntaxTree |-> TRUE, Visual |-> FALSE]

\* invokeCommand's switch: the actions that go through parseFile.
UsesParseFile(action) ==
  action \in {"FullParseRoundTrip", "SerializeRawTree", "ParseOnly",
              "ParserGen", "EOFPos"}

\* `ExitCode = invokeCommand(...)` in main, and the defers of parseFile:
\* the cache is deleted on every way out.
ReturnToMain(code) ==
  /\ ExitCode' = code
  /\ pc' = IF options.InputSourceFilename # "" THEN "exit" ELSE "dir"
  /\ SyntaxCache' = NoCache
  /\ run' = [processed |-> run.processed + 1,
             failed |-> run.failed \/ code = EXIT_FAILURE]

\* The process dies: a failed assertion, or a fault in a release build.
Abort ==
  /\ pc' = "aborted"
  /\ UNCHANGED <<ExitCode, SyntaxCache, run>>

\* main, up to the first invokeCommand or the directory iterator.
Main ==
  /\ pc = "main"
  /\ LET noInput == options.InputSourceFilename = ""
                    /\ options.InputSourceDirectory = ""
         both == options.InputSourceFilename # ""
                 /\ options.InputSourceDirectory # ""
         noAction == options.Action = "None"
     IN  IF noInput \/ both \/ noAction
         THEN /\ ExitCode' = EXIT_FAILURE
              /\ pc' = "exit"
              /\ io' = [io EXCEPT !.errs =
                          IF noAction THEN "an action is required"
                          ELSE IF both THEN "cannot be used together"
                          ELSE "input source file is required"]
         ELSE /\ ExitCode' = EXIT_SUCCESS
              /\ pc' = IF options.InputSourceFilename # "" THEN "invoke" ELSE "dir"
              /\ io' = io
  /\ UNCHANGED <<arena, replaced, options, env, dirEntries, input, SyntaxCache, editIndex, SF, run>>

\* One step of main's recursive_directory_iterator loop.
DirectoryNext ==
  /\ pc = "dir"
  /\ IF dirEntries = <<>>
     THEN pc' = "exit" /\ dirEntries' = dirEntries
     ELSE /\ dirEntries' = Tail(dirEntries)
          /\ pc' = IF ~Head(dirEntries).isDirectory /\ Head(dirEntries).endsWithSwift
                   THEN "invoke" ELSE "dir"
  /\ UNCHANGED <<arena, replaced, options, env, ExitCode, input, SyntaxCache, editIndex, SF, io, run>>

\* ------------------------------------------------------ the environment
\* Longest source file of a directory run.
MaxBatchLen == 1

\* Most entries of the scanned directory.
MaxEntries == 3

\* Longest text a read of an empty Optional may print.
MaxGarbageLen == 1

BatchBuffers == SeqsUpTo(Alphabet, MaxBatchLen)

OldBuffers == SeqsUpTo(IncrAlphabet, MaxOldLen)

GarbageTexts == SeqsUpTo(Alphabet, MaxGarbageLen)

SourceBuffersOf(e) ==
  CASE e.kind = "batch" -> BatchBuffers
    [] e.kind = "incr" -> {e.newSource}
    [] OTHER -> Buffers

\* The files the input path may name: a source file, or one that cannot be
\* read.  An incremental reparse reads the post-edit file.
SourceFiles(e) ==
  {File(S) : S \in SourceBuffersOf(e)}
  \cup (IF e.kind = "incr" THEN {} ELSE {NoFile})

\* Documents that do not decode: the last record cut off, an unknown kind
\* tag, a child count or a width that is off by one.
MalformedDocuments(d) ==
  {SubSeq(d, 1, Len(d) - 1)}
  \cup {[d EXCEPT ![i].kind = "bogus"] : i \in 1..Len(d)}
  \cup {[d EXCEPT ![i].count = @ + 1] : i \in 1..Len(d)}
  \cup {[d EXCEPT ![i].width = @ + 1] : i \in 1..Len(d)}

\* The files deserialize-raw-tree may be given: what serialize-raw-tree
\* wrote for some source, a damaged copy of it, or an unreadable file.
DocumentFiles(e) ==
  LET docs == {Serialize(ParseSource(S)) : S \in SourceBuffersOf(e)}
  IN  {File(d) : d \in docs}
      \cup {File(m) : m \in UNION {MalformedDocuments(d) : d \in docs}}
      \cup {NoFile}

\* ----------------------------------------------------------- lex actions
\* A mutant of LexRoundTripText: the loop stops before the last token.
LexRoundTripTextWithoutLast(tokens) ==
  Concat([i \in 1..(Len(tokens) - 1) |->
            PrintNode(tokens[i], DefaultPrintOptions)])

\* doFullLexRoundTrip's loop: every token printed with default options.
LexRoundTripText(tokens) ==
  Concat([i \in 1..Len(tokens) |-> PrintNode(tokens[i], DefaultPrintOptions)])

\* The AbsolutePosition tokenizeWithTrivia pairs with its k-th token.
TokenPosition(tokens, k) == AbsolutePositionOfToken(Layout("Tokens", tokens), k)

\* doDumpRawTokenSyntax's loop: each token's line and column, then the token.
TokenDump(tokens) ==
  [k \in 1..Len(tokens) |->
     [line |-> TokenPosition(tokens, k).line,
      column |-> TokenPosition(tokens, k).column,
      offset |-> TokenPosition(tokens, k).offset,
      token |-> tokens[k]]]

\* round-trip-lex: doFullLexRoundTrip with getTokensFromFile.
DoFullLexRoundTrip ==
  /\ pc = "invoke"
  /\ options.Action = "FullLexRoundTrip"
  /\ \E f \in SourceFiles(env) :
       /\ input' = f
       /\ IF ~f.readable
          THEN /\ io' = [EmptyIO EXCEPT !.errs = "cannot_open_file"]
               /\ ReturnToMain(EXIT_FAILURE)
          ELSE /\ io' = [EmptyIO EXCEPT
                           !.out = LexRoundTripText(tokenizeWithTrivia(f.content))]
               /\ ReturnToMain(EXIT_SUCCESS)
  /\ UNCHANGED <<arena, replaced, options, env, dirEntries, editIndex, SF>>

\* dump-full-tokens: doDumpRawTokenSyntax with getTokensFromFile.
DoDumpRawTokenSyntax ==
  /\ pc = "invoke"
  /\ options.Action = "DumpRawTokenSyntax"
  /\ \E f \in SourceFiles(env) :
       /\ input' = f
       /\ IF ~f.readable
          THEN /\ io' = [EmptyIO EXCEPT !.errs = "cannot_open_file"]
               /\ ReturnToMain(EXIT_FAILURE)
          ELSE /\ io' = [EmptyIO EXCEPT
                           !.dump = TokenDump(tokenizeWithTrivia(f.content))]
               /\ ReturnToMain(EXIT_SUCCESS)
  /\ UNCHANGED <<arena, replaced, options, env, dirEntries, editIndex, SF>>

\* What doDeserializeRawTree prints for a tree: print with default options.
DeserializedText(tree) == PrintNode(tree, DefaultPrintOptions)

\* What one run of doDeserializeRawTree may do.  Neither the file read nor
\* the deserializer's result is checked: reading a file that is not there,
\* or printing the tree of a document that does not decode, is undefined,
\* so the process dies or prints whatever the empty Optional holds; every
\* way that returns, returns EXIT_SUCCESS.
DeserializeOutcomes(f) ==
  LET tree == getSourceFileSyntax(f.content)
  IN  IF f.readable /\ tree.hasValue
      THEN {[aborts |-> FALSE, text |-> DeserializedText(tree.value),
             code |-> EXIT_SUCCESS]}
      ELSE {[aborts |-> TRUE, text |-> <<>>, code |-> EXIT_SUCCESS]}
           \cup {[aborts |-> FALSE, text |-> g, code |-> EXIT_SUCCESS] :
                   g \in GarbageTexts}

\* deserialize-raw-tree: doDeserializeRawTree.
DoDeserializeRawTree ==
  /\ pc = "invoke"
  /\ options.Action = "DeserializeRawTree"
  /\ \E f \in DocumentFiles(env) : \E o \in DeserializeOutcomes(f) :
       /\ input' = f
       /\ io' = [EmptyIO EXCEPT !.file = o.text]
       /\ IF o.aborts THEN Abort ELSE ReturnToMain(o.code)
  /\ UNCHANGED <<arena, replaced, options, env, dirEntries, editIndex, SF>>

\* ------------------------------------------------------------ parseFile
Event(io_, e) == [io_ EXCEPT !.trace = Append(@, e)]

\* What loading the old syntax tree may do.  The file read is not checked:
\* with a file that cannot be read the deserializer is handed the buffer
\* of a failed read, which is undefined, so the process dies or the
\* deserializer finds no tree in it.
OldTreeOutcomes(o, e) ==
  IF o.OldSyntaxTreeFilename = "" THEN {[kind |-> "none", tree |-> NoTree]}
  ELSE IF ~e.oldTreeFile.readable
  THEN {[kind |-> "aborts", tree |-> NoTree], [kind |-> "failure", tree |-> NoTree]}
  ELSE LET t == getSourceFileSyntax(e.oldTreeFile.content)
       IN  IF t.hasValue THEN {[kind |-> "cache", tree |-> t.value]}
           ELSE {[kind |-> "failure", tree |-> NoTree]}

\* parseFile, up to the compiler invocation: the old syntax tree, if one
\* is named, is deserialized and wrapped in a cache.
ParseFileLoadOldTree ==
  /\ pc = "invoke"
  /\ UsesParseFile(options.Action)
  /\ \E o \in OldTreeOutcomes(options, env) :
       IF o.kind = "aborts" THEN Abort /\ io' = EmptyIO
       ELSE IF o.kind = "failure"
       THEN /\ io' = [EmptyIO EXCEPT
                        !.errs = "Could not deserialise old syntax tree."]
            /\ ReturnToMain(EXIT_FAILURE)
       ELSE /\ pc' = "pf_setup"
            /\ SyntaxCache' = IF o.kind = "cache" THEN SyntaxParsingCache(o.tree)
                              ELSE NoCache
            /\ io' = IF o.kind = "cache" THEN Event(EmptyIO, "createCache")
                     ELSE EmptyIO
            /\ UNCHANGED <<ExitCode, run>>
  /\ input' = NoFile
  /\ SF' = NoTree
  /\ UNCHANGED <<arena, replaced, options, env, dirEntries, editIndex>>

\* parseFile: the compiler instance is set up on the input file.
ParseFileSetup ==
  /\ pc = "pf_setup"
  /\ \E f \in SourceFiles(env) :
       /\ input' = f
       /\ IF ~f.readable
          THEN /\ io' = [io EXCEPT !.errs = "Unable to set up compiler instance"]
               /\ ReturnToMain(EXIT_FAILURE)
               /\ editIndex' = editIndex
          ELSE /\ pc' = IF SyntaxCache.null THEN "pf_parse" ELSE "pf_edits"
               /\ editIndex' = 1
               /\ io' = Event(io, "setup")
               /\ UNCHANGED <<ExitCode, SyntaxCache, run>>
  /\ UNCHANGED <<arena, replaced, options, env, dirEntries, SF>>

\* An edit pattern of the command line, as the regular expression
\* ([0-9]+):([0-9]+)-([0-9]+):([0-9]+)=(.*) sees it: four numbers and a
\* replacement, or something else (such as the <start>:<end>=<replacement>
\* of the option's description).
LineColPattern(startLine, startColumn, endLine, endColumn, replacement) ==
  [form |-> "LineCol", startLine |-> startLine, startColumn |-> startColumn,
   endLine |-> endLine, endColumn |-> endColumn, replacement |-> replacement]

OffsetPattern(start, end, replacement) ==
  [form |-> "Offsets", startLine |-> start, startColumn |-> end,
   endLine |-> 0, endColumn |-> 0, replacement |-> replacement]

\* Four numbers and a replacement, one of the numbers too long for an int.
OverflowPattern(replacement) ==
  [form |-> "Overflow", startLine |-> 1, startColumn |-> 1,
   endLine |-> 1, endColumn |-> 1, replacement |-> replacement]

MatchRegex(p) == p.form \in {"LineCol", "Overflow"}

\* StringRef::getAsInteger(10, int) fails on a number no int holds.
GetAsIntegerFails(p) == p.form = "Overflow"

\* The offsets a location that is no location may convert to: any, here
\* the least one and one past every old source.
GarbageOffsets == {0, MaxOldLen + 1}

\* The buffer the edit's lines and columns are looked up in: BufferID, the
\* buffer of the input file.
EditBuffer(inputFile, e) == inputFile.content

\* The offsets one pattern hands to addEdit.  A line or column the buffer
\* does not have gives no location, and its offset is undefined: the
\* process dies on the assertion, or goes on with some offset.
EditOffsetOutcomes(S, p) ==
  LET startLoc == getLocForLineCol(S, p.startLine, p.startColumn)
      endLoc == getLocForLineCol(S, p.endLine, p.endColumn)
      starts == IF startLoc = InvalidLoc THEN GarbageOffsets ELSE {startLoc}
      ends == IF endLoc = InvalidLoc THEN GarbageOffsets ELSE {endLoc}
  IN  {[aborts |-> FALSE, start |-> st, end |-> en] : st \in starts, en \in ends}
      \cup (IF startLoc = InvalidLoc \/ endLoc = InvalidLoc
            THEN {[aborts |-> TRUE, start |-> 0, end |-> 0]} ELSE {})

\* One round of parseIncrementalEditArguments' loop, and parseFile's
\* return when it fails.
ParseIncrementalEditArgument ==
  /\ pc = "pf_edits"
  /\ IF editIndex > Len(options.IncrementalEdits)
     THEN /\ pc' = "pf_parse"
          /\ UNCHANGED <<ExitCode, SyntaxCache, run, editIndex, io>>
     ELSE LET p == options.IncrementalEdits[editIndex] IN
       IF ~MatchRegex(p)
       THEN /\ io' = [io EXCEPT !.errs = "Invalid edit pattern"]
            /\ ReturnToMain(EXIT_FAILURE)
            /\ editIndex' = editIndex
       ELSE IF GetAsIntegerFails(p)
       THEN /\ io' = [io EXCEPT !.errs = "Could not parse edit as integer"]
            /\ ReturnToMain(EXIT_FAILURE)
            /\ editIndex' = editIndex
       ELSE \E o \in EditOffsetOutcomes(EditBuffer(input, env), p) :
              IF o.aborts
              THEN Abort /\ UNCHANGED <<editIndex, io>>
              ELSE /\ SyntaxCache' = addEdit(SyntaxCache, o.start, o.end,
                                             Len(p.replacement))
                   /\ editIndex' = editIndex + 1
                   /\ io' = Event(io, "addEdit")
                   /\ UNCHANGED <<pc, ExitCode, run>>
  /\ UNCHANGED <<arena, replaced, options, env, dirEntries, input, SF>>

\* parseFile: performParseOnly and the search for the SourceFile.  The
\* parser covers its input whether or not it reuses old nodes (section 6);
\* a cache it consulted holds the reused regions afterwards.
ParseFilePerformParse ==
  /\ pc = "pf_parse"
  /\ SF' = ParseSource(input.content)
  /\ SyntaxCache' = IF SyntaxCache.null THEN NoCache ELSE resolveReuse(SyntaxCache)
  /\ pc' = IF SyntaxCache.null THEN "pf_callback" ELSE "pf_reuse"
  /\ io' = Event(io, "parse")
  /\ UNCHANGED <<arena, replaced, options, env, ExitCode, dirEntries, input, editIndex, run>>

\* PrintReparsedRegion, without colours: ReparseEnd - ReparseStart is an
\* unsigned difference.
PrintReparsedRegion(SourceText, ReparseStart, ReparseEnd) ==
  IF ReparseEnd # ReparseStart
  THEN <<"<reparse>">>
       \o Substr(SourceText, ReparseStart,
                 UnsignedDifference(ReparseEnd, ReparseStart))
       \o <<"</reparse>">>
  ELSE <<>>

\* A mutant of NextCurrentOffset: one past the end of the range.
NextCurrentOffsetPastEnd(CurrentOffset, ReuseRange) == ReuseRange.second + 1

\* CurrentOffset after a reuse range has been printed.
NextCurrentOffset(CurrentOffset, ReuseRange) == ReuseRange.second

\* printVisualNodeReuseInformation's loop from CurrentOffset on: the text
\* it prints, and the (ReparseStart, ReparseEnd) it hands to
\* PrintReparsedRegion.
RECURSIVE VisualReuse(_, _, _)
VisualReuse(SourceText, ranges, CurrentOffset) ==
  IF ranges = <<>>
  THEN [out |-> PrintReparsedRegion(SourceText, CurrentOffset, Len(SourceText))
                \o <<NL>>,
        reparsed |-> <<[start |-> CurrentOffset, end |-> Len(SourceText)]>>]
  ELSE LET r == Head(ranges)
           rest == VisualReuse(SourceText, Tail(ranges),
                               NextCurrentOffset(CurrentOffset, r))
       IN  [out |-> PrintReparsedRegion(SourceText, CurrentOffset, r.first)
                    \o Substr(SourceText, r.first,
                              UnsignedDifference(r.second, r.first))
                    \o rest.out,
            reparsed |-> <<[start |-> CurrentOffset, end |-> r.first]>>
                         \o rest.reparsed]

\* saveReuseLog: a line per reuse range, its ends as lines and columns of
\* the new buffer.
ReuseLog(SourceText, ranges) ==
  [i \in 1..Len(ranges) |->
     [start |-> getLineAndColumn(SourceText, ranges[i].first),
      end |-> getLineAndColumn(SourceText, ranges[i].second)]]

\* parseFile: with a cache, the reuse information asked for is written.
ParseFileReuseInfo ==
  /\ pc = "pf_reuse"
  /\ LET ranges == getReusedRanges(SyntaxCache)
         visual == VisualReuse(input.content, ranges, 0)
     IN  io' = Event([io EXCEPT
                 !.out = IF options.PrintVisualReuseInfo THEN visual.out ELSE @,
                 !.reparsed = IF options.PrintVisualReuseInfo
                              THEN visual.reparsed ELSE @,
                 !.log = IF options.IncrementalReuseLog # ""
                         THEN ReuseLog(input.content, ranges) ELSE @],
               "readRanges")
  /\ pc' = "pf_callback"
  /\ UNCHANGED <<arena, replaced, options, env, ExitCode, dirEntries, input, SyntaxCache,
                 editIndex, SF, run>>

\* ------------------------------------------------ the actions' callbacks
\* A mutant of ParseRoundTripText: parse-gen's kind-printing options.
ParseRoundTripTextWithKinds(root) ==
  PrintNode(root, PrintOptions(FALSE, TRUE, FALSE))

\* round-trip-parse: the syntax root printed with default options.
ParseRoundTripText(root) == PrintNode(root, DefaultPrintOptions)

FullParseRoundTripCallback ==
  /\ pc = "pf_callback"
  /\ options.Action = "FullParseRoundTrip"
  /\ io' = Event([io EXCEPT !.out = @ \o ParseRoundTripText(SF)], "callback")
  /\ ReturnToMain(EXIT_SUCCESS)
  /\ UNCHANGED <<arena, replaced, options, env, dirEntries, input, editIndex, SF>>

\* A mutant of SerializedRoot: the item list is taken for the root.
SerializedItems(root) == Serialize(root.children[1])

\* What serialize-raw-tree writes: the document of the raw root.
SerializedRoot(root) == Serialize(root)

\* serialize-raw-tree: the raw root as a document, to the output file if
\* one is named and to llvm::outs() otherwise.
SerializeRawTreeCallback ==
  /\ pc = "pf_callback"
  /\ options.Action = "SerializeRawTree"
  /\ io' = Event([io EXCEPT
                    !.json = SerializedRoot(SF),
                    !.jsonTo = IF options.OutputFilename # "" THEN "file"
                               ELSE "stdout"],
                 "callback")
  /\ ReturnToMain(EXIT_SUCCESS)
  /\ UNCHANGED <<arena, replaced, options, env, dirEntries, input, editIndex, SF>>

\* parse-only: nothing is printed.
ParseOnlyCallback ==
  /\ pc = "pf_callback"
  /\ options.Action = "ParseOnly"
  /\ io' = Event(io, "callback")
  /\ ReturnToMain(IF SF # NoTree THEN EXIT_SUCCESS ELSE EXIT_FAILURE)
  /\ UNCHANGED <<arena, replaced, options, env, dirEntries, input, editIndex, SF>>

\* parse-gen: the syntax root printed with the options of the command line.
ParserGenCallback ==
  /\ pc = "pf_callback"
  /\ options.Action = "ParserGen"
  /\ io' = Event([io EXCEPT !.out = @ \o
                    PrintNode(SF, PrintOptions(options.Visual,
                                               options.PrintNodeKind,
                                               options.PrintTrivialNodeKind))],
                 "callback")
  /\ ReturnToMain(EXIT_SUCCESS)
  /\ UNCHANGED <<arena, replaced, options, env, dirEntries, input, editIndex, SF>>

\* The offset EndLoc is made from: that of the EOF token's position.
EOFEndOffset(AbPos) == AbPos.offset

\* A mutant of EOFLocationsDiffer: the comparison the other way round.
EOFLocationsAgree(S, AbPos) ==
  getLineAndColumn(S, EOFEndOffset(AbPos))
    = [line |-> AbPos.line, column |-> AbPos.column]

\* dumpEOFSourceLoc's comparison: the line and column the source manager
\* gives EndLoc against those of the absolute position.
EOFLocationsDiffer(S, AbPos) ==
  getLineAndColumn(S, EOFEndOffset(AbPos))
    # [line |-> AbPos.line, column |-> AbPos.column]

\* eof: the buffer from its start to the EOF token, unless the two
\* positions of the EOF token differ.
EOFPosCallback ==
  /\ pc = "pf_callback"
  /\ options.Action = "EOFPos"
  /\ LET AbPos == EOFAbsolutePosition(SF) IN
       IF EOFLocationsDiffer(input.content, AbPos)
       THEN /\ io' = Event([io EXCEPT !.out = @ \o <<"locations should be identical">>],
                           "callback")
            /\ ReturnToMain(EXIT_FAILURE)
       ELSE /\ io' = Event([io EXCEPT !.out = @ \o
                              Substr(input.content, 0, EOFEndOffset(AbPos))],
                           "callback")
            /\ ReturnToMain(EXIT_SUCCESS)
  /\ UNCHANGED <<arena, replaced, options, env, dirEntries, input, editIndex, SF>>

\* ------------------------------------------------------- initial states
NoEnv(kind) ==
  [kind |-> kind, directory |-> <<>>, oldSource |-> <<>>, edits |-> <<>>,
   faithful |-> FALSE, oldTreeFile |-> NoFile, newSource |-> <<>>]

\* No withReplacedChild has been called.
NoReplacement ==
  [calls |-> 0, original |-> <<>>, before |-> <<>>, node |-> 0, index |-> 0,
   newChild |-> 0, result |-> 0]

InitProcess ==
  /\ arena = <<>>
  /\ replaced = NoReplacement
  /\ pc = "main"
  /\ ExitCode = EXIT_SUCCESS
  /\ input = NoFile
  /\ SyntaxCache = NoCache
  /\ editIndex = 1
  /\ SF = NoTree
  /\ io = EmptyIO
  /\ run = [processed |-> 0, failed |-> FALSE]

\* The command lines of a run on one file, and those main turns down: no
\* input, a file and a directory at once, no action.  parse-gen comes with
\* every choice of its three print flags, serialize-raw-tree with and
\* without an output file, deserialize-raw-tree with one.
SingleFileOptions ==
  {Options(a, f[1], f[2]) :
     a \in ActionType \ {"ParserGen", "SerializeRawTree", "DeserializeRawTree"},
     f \in {<<"in", "">>, <<"", "">>, <<"in", "dir">>}}
  \cup {[Options("ParserGen", "in", "") EXCEPT
           !.Visual = v, !.PrintNodeKind = k, !.PrintTrivialNodeKind = t] :
          v \in BOOLEAN, k \in BOOLEAN, t \in BOOLEAN}
  \cup {[Options("SerializeRawTree", "in", "") EXCEPT !.OutputFilename = o] :
          o \in {"", "out"}}
  \cup {[Options("DeserializeRawTree", "in", "") EXCEPT !.OutputFilename = "out"]}

Init ==
  /\ InitProcess
  /\ options \in SingleFileOptions
  /\ env = NoEnv("single")
  /\ dirEntries = <<>>

Next ==
  \/ Main
  \/ DoFullLexRoundTrip
  \/ DoDumpRawTokenSyntax
  \/ DoDeserializeRawTree
  \/ ParseFileLoadOldTree
  \/ ParseFileSetup
  \/ ParseFilePerformParse
  \/ FullParseRoundTripCallback
  \/ SerializeRawTreeCallback
  \/ ParseOnlyCallback
  \/ ParserGenCallback
  \/ EOFPosCallback

\* A run of the tool on one input file.
Spec == Init /\ [][Next]_vars

\* A run of the tool on a directory: the entries the recursive iterator
\* meets are files named *.swift, other files, and directories.
DirectoryEntry(isDirectory, endsWithSwift) ==
  [isDirectory |-> isDirectory, endsWithSwift |-> endsWithSwift]

DirectoryEntries ==
  {DirectoryEntry(FALSE, TRUE), DirectoryEntry(FALSE, FALSE),
   DirectoryEntry(TRUE, FALSE), DirectoryEntry(TRUE, TRUE)}

BatchOptions ==
  {Options(a, "", "dir") : a \in ActionType \ {"None", "DeserializeRawTree"}}
  \cup {[Options("DeserializeRawTree", "", "dir") EXCEPT !.OutputFilename = "out"]}

InitBatch ==
  /\ InitProcess
  /\ options \in BatchOptions
  /\ dirEntries \in SeqsUpTo(DirectoryEntries, MaxEntries)
  /\ env = [NoEnv("batch") EXCEPT !.directory = dirEntries]

NextBatch ==
  \/ Main
  \/ DirectoryNext
  \/ DoFullLexRoundTrip
  \/ DoDumpRawTokenSyntax
  \/ DoDeserializeRawTree
  \/ ParseFileLoadOldTree
  \/ ParseFileSetup
  \/ ParseFilePerformParse
  \/ FullParseRoundTripCallback
  \/ SerializeRawTreeCallback
  \/ ParseOnlyCallback
  \/ ParserGenCallback
  \/ EOFPosCallback

SpecBatch == InitBatch /\ [][NextBatch]_vars

\* An incremental reparse: the old source, the edits that turn it into
\* the input file, and the serialized old tree.
MaxEdits == 2

ReplacementTexts == {<<>>, <<"a">>, <<NL>>}

TextEdit(start, end, replacement) ==
  [start |-> start, end |-> end, replacement |-> replacement]

\* The edit as the resolver should see it.
EditOf(te) == Edit(te.start, te.end, Len(te.replacement))

EditsOf(tes) == [i \in 1..Len(tes) |-> EditOf(tes[i])]

\* Edit sequences of the old source: inside it, in increasing order,
\* without overlap.
FaithfulEdits(oldLen) ==
  {es \in SeqsUpTo({TextEdit(st, en, r) :
                      st \in 0..oldLen, en \in 0..oldLen, r \in ReplacementTexts},
                   MaxEdits) :
     EditsWellFormed(EditsOf(es), oldLen)}

\* Edit sequences the resolver must turn down: one edit whose end comes
\* before its start or after the old source, or two edits inside the old
\* source that overlap or come in the wrong order.
MalformedEdits(oldLen) ==
  {es \in {<<TextEdit(st, en, <<"a">>)>> :
             st \in 0..(oldLen + 1), en \in 0..(oldLen + 1)}
          \cup {<<TextEdit(s1, e1, <<"a">>), TextEdit(s2, e2, <<"a">>)>> :
                  s1 \in 0..oldLen, e1 \in 0..oldLen,
                  s2 \in 0..oldLen, e2 \in 0..oldLen} :
     ~EditsWellFormed(EditsOf(es), oldLen)}

\* The old source with the edits applied, from old offset pos on.
RECURSIVE ApplyEdits(_, _, _)
ApplyEdits(O, edits, pos) ==
  IF edits = <<>> THEN SubSeq(O, pos + 1, Len(O))
  ELSE SubSeq(O, pos + 1, Head(edits).start) \o Head(edits).replacement
       \o ApplyEdits(O, Tail(edits), Head(edits).end)

\* The line and column that name an offset of the old source (past its
\* end: columns the last line does not have).
LineColOf(O, offset) ==
  LET lc == getLineAndColumn(O, Min(offset, Len(O)))
  IN  [line |-> lc.line, column |-> lc.column + Max(offset - Len(O), 0)]

PatternOf(O, te) ==
  LineColPattern(LineColOf(O, te.start).line, LineColOf(O, te.start).column,
                 LineColOf(O, te.end).line, LineColOf(O, te.end).column,
                 te.replacement)

PatternsOf(O, tes) == [i \in 1..Len(tes) |-> PatternOf(O, tes[i])]

IncrEnv(O, edits, faithful, oldTreeFile, newSource) ==
  [kind |-> "incr", directory |-> <<>>, oldSource |-> O, edits |-> edits,
   faithful |-> faithful, oldTreeFile |-> oldTreeFile, newSource |-> newSource]

IncrOptions(patterns, visual, log) ==
  [Options("FullParseRoundTrip", "in", "") EXCEPT
     !.OldSyntaxTreeFilename = "old.json", !.IncrementalEdits = patterns,
     !.PrintVisualReuseInfo = visual, !.IncrementalReuseLog = log]

\* The runs of an incremental round-trip-parse: the edits are those that
\* were applied (without edits, with every choice of the reuse outputs);
\* or they are malformed and the file is unchanged; or an edit pattern is
\* not one, alone or after one that is; or edits are given without an old
\* tree; or the old tree's file is unreadable or damaged.
InitIncr ==
  /\ InitProcess
  /\ dirEntries = <<>>
  /\ \E O \in OldBuffers :
       LET doc == Serialize(ParseSource(O)) IN
       \/ \E es \in FaithfulEdits(Len(O)) :
            /\ env = IncrEnv(O, es, TRUE, File(doc), ApplyEdits(O, es, 0))
            /\ \E v \in BOOLEAN, l \in {"", "log"} :
                 /\ es # <<>> => (v /\ l = "log")
                 /\ options = IncrOptions(PatternsOf(O, es), v, l)
       \/ \E es \in MalformedEdits(Len(O)) :
            /\ env = IncrEnv(O, es, FALSE, File(doc), O)
            /\ options = IncrOptions(PatternsOf(O, es), TRUE, "log")
       \/ \E p \in {OffsetPattern(0, Len(O), <<>>), OverflowPattern(<<>>)} :
            /\ env = IncrEnv(O, <<>>, FALSE, File(doc), O)
            /\ \E before \in {<<>>, <<LineColPattern(1, 1, 1, 1, <<>>)>>} :
                 options = IncrOptions(before \o <<p>>, TRUE, "log")
       \/ \E p \in {LineColPattern(1, 1, 1, 1, <<>>),
                     OffsetPattern(0, Len(O), <<>>)} :
            /\ env = IncrEnv(O, <<>>, FALSE, NoFile, O)
            /\ options = [IncrOptions(<<p>>, TRUE, "log") EXCEPT
                            !.OldSyntaxTreeFilename = ""]
       \/ \E f \in {File(m) : m \in MalformedDocuments(doc)} \cup {NoFile} :
            /\ env = IncrEnv(O, <<>>, FALSE, f, O)
            /\ options = IncrOptions(<<>>, TRUE, "log")

NextIncr ==
  \/ Main
  \/ ParseFileLoadOldTree
  \/ ParseFileSetup
  \/ ParseIncrementalEditArgument
  \/ ParseFilePerformParse
  \/ ParseFileReuseInfo
  \/ FullParseRoundTripCallback

SpecIncr == InitIncr /\ [][NextIncr]_vars

\* ------------------------------------------------------------ the claims
RECURSIVE ContainsMissing(_)
ContainsMissing(n) ==
  \/ n.type = "Missing"
  \/ \E i \in 1..Len(n.children) : ContainsMissing(n.children[i])

HasTrivia(root, kind) ==
  \E k \in 1..Len(TokensOf(root)) :
    LET ps == TokensOf(root)[k].leading \o TokensOf(root)[k].trailing
    IN  \E i \in 1..Len(ps) : ps[i].kind = kind

\* The one invokeCommand of a run on one file has returned.
Finished(action) ==
  pc = "exit" /\ options.Action = action /\ run.processed = 1

\* C1: when round-trip-parse has run on a readable source file, it has
\* succeeded and what it printed is the file, byte for byte.
C1_ParseRoundTrip ==
  (Finished("FullParseRoundTrip") /\ input.readable)
    => (ExitCode = EXIT_SUCCESS /\ io.out = input.content)

\* round-trip-parse gave back a file of full length with a comment and a
\* missing child.
C1_Witness ==
  /\ Finished("FullParseRoundTrip") /\ input.readable
  /\ io.out = input.content
  /\ Len(input.content) = MaxLen
  /\ ContainsMissing(SF)
  /\ HasTrivia(SF, "LineComment")

\* The offset at which the k-th token of a token sequence starts.
TokenStart(tokens, k) == SumSeq([i \in 1..(k - 1) |-> Width(tokens[i])])

\* C7: when round-trip-lex has run on a readable source file, malformed or
\* not, it has succeeded, what it printed is the file, and the tokens'
\* texts are the consecutive slices of the file, from its first byte to
\* its last.
C7_LexRoundTrip ==
  (Finished("FullLexRoundTrip") /\ input.readable)
    => LET S == input.content
           ts == tokenizeWithTrivia(S)
       IN  /\ ExitCode = EXIT_SUCCESS
           /\ io.out = S
           /\ TokenStart(ts, Len(ts) + 1) = Len(S)
           /\ \A k \in 1..Len(ts) :
                SubSeq(S, TokenStart(ts, k) + 1, TokenStart(ts, k + 1))
                  = TokenText(ts[k])

\* round-trip-lex gave back a file of full length that holds a character
\* no token starts with, and trivia.
C7_Witness ==
  /\ Finished("FullLexRoundTrip") /\ input.readable
  /\ io.out = input.content
  /\ Len(input.content) = MaxLen
  /\ \E k \in 1..Len(tokenizeWithTrivia(input.content)) :
       tokenizeWithTrivia(input.content)[k].kind = "unknown"
  /\ HasTrivia(Layout("Tokens", tokenizeWithTrivia(input.content)), "Newline")

\* C8: after the eof action on a readable file, the position of every
\* token of the tree (the EOF token's too), accumulated from the widths
\* and newlines before it, is the line and column a scan of the buffer
\* gives for its offset, and the action has failed exactly if the two
\* differ for the EOF token; the positions dump-full-tokens prints agree
\* with the scan as well.
C8_PositionAgreement ==
  /\ (Finished("EOFPos") /\ input.readable)
       => LET S == input.content
              eof == EOFAbsolutePosition(SF)
          IN  /\ \A k \in 1..Len(TokensOf(SF)) :
                   LET p == AbsolutePositionOfToken(SF, k)
                   IN  getLineAndColumn(S, p.offset)
                         = [line |-> p.line, column |-> p.column]
              /\ (ExitCode = EXIT_FAILURE)
                   <=> (getLineAndColumn(S, eof.offset)
                          # [line |-> eof.line, column |-> eof.column])
  /\ (Finished("DumpRawTokenSyntax") /\ input.readable)
       => \A k \in 1..Len(io.dump) :
            getLineAndColumn(input.content, io.dump[k].offset)
              = [line |-> io.dump[k].line, column |-> io.dump[k].column]

\* The eof action succeeded on a file whose EOF token is neither on the
\* first line nor in the first column.
C8_Witness ==
  /\ Finished("EOFPos") /\ input.readable
  /\ ExitCode = EXIT_SUCCESS
  /\ EOFAbsolutePosition(SF).line > 1
  /\ EOFAbsolutePosition(SF).column > 1

\* C4: the document serialize-raw-tree writes for a tree deserializes, to
\* a tree that prints the same bytes and has the same tokens and children;
\* and deserialize-raw-tree, given a document that decodes, prints its
\* tree.
C4_InterchangeRoundTrip ==
  /\ (Finished("SerializeRawTree") /\ input.readable)
       => LET t == getSourceFileSyntax(io.json)
          IN  /\ t.hasValue
              /\ DeserializedText(t.value) = PrintNode(SF, DefaultPrintOptions)
              /\ DeserializedText(t.value) = input.content
              /\ TokensOf(t.value) = TokensOf(SF)
              /\ t.value = SF
  /\ (Finished("DeserializeRawTree") /\ input.readable
      /\ getSourceFileSyntax(input.content).hasValue)
       => /\ ExitCode = EXIT_SUCCESS
          /\ io.file = PrintNode(getSourceFileSyntax(input.content).value,
                                 DefaultPrintOptions)

\* serialize-raw-tree wrote the document of a tree with a missing child
\* and trivia.
C4_Witness ==
  /\ Finished("SerializeRawTree") /\ input.readable
  /\ io.jsonTo = "file"
  /\ getSourceFileSyntax(io.json).hasValue
  /\ ContainsMissing(SF)
  /\ HasTrivia(SF, "Space")
  /\ HasTrivia(SF, "Newline")

\* C6: a document that cannot be read or does not decode gives no tree:
\* deserialize-raw-tree ends with a failure status and has printed
\* nothing, and parseFile, given such an old syntax tree, ends with a
\* failure status without a parse and without the action's callback.
C6_NoTreeFromBadDocument ==
  /\ (options.Action = "DeserializeRawTree" /\ run.processed = 1
      /\ ~(input.readable /\ getSourceFileSyntax(input.content).hasValue))
       => (ExitCode = EXIT_FAILURE /\ io.file = <<>>)
  /\ (UsesParseFile(options.Action) /\ run.processed = 1
      /\ options.OldSyntaxTreeFilename # ""
      /\ ~(env.oldTreeFile.readable
           /\ getSourceFileSyntax(env.oldTreeFile.content).hasValue))
       => (ExitCode = EXIT_FAILURE /\ SF = NoTree /\ io.out = <<>>
           /\ \A i \in 1..Len(io.trace) : io.trace[i] \notin {"parse", "callback"})

\* The number of entries that are files named *.swift.
RECURSIVE SwiftFiles(_)
SwiftFiles(entries) ==
  IF entries = <<>> THEN 0
  ELSE (IF ~Head(entries).isDirectory /\ Head(entries).endsWithSwift
        THEN 1 ELSE 0) + SwiftFiles(Tail(entries))

\* C9: when the process exits, its status is a failure if the action
\* failed on any file, and a directory run has processed every .swift
\* file of the directory.
C9_ExitStatusSignalsFailure ==
  pc = "exit"
    => /\ run.failed => ExitCode = EXIT_FAILURE
       /\ (options.InputSourceFilename = "" /\ options.InputSourceDirectory # "")
            => run.processed = SwiftFiles(env.directory)

\* The parse has consulted the cache.
Resolved == pc \in {"pf_reuse", "pf_callback"} /\ ~SyntaxCache.null

\* The new offset at which the replacement of the i-th applied edit starts.
NewStartOfEdit(tes, i) ==
  tes[i].start + DeltaAt(EditsOf(SubSeq(tes, 1, i - 1)), tes[i].start)

\* C2: with the edits that turned the old source into the input file, the
\* bytes of every reuse range are, in the input file, the bytes of its
\* region of the old source, and neither a replaced byte of the old source
\* nor an inserted byte of the new one lies in it.
C2_ReuseSoundness ==
  (Resolved /\ env.faithful)
    => \A i \in 1..Len(SyntaxCache.reused) :
         LET r == SyntaxCache.reused[i] IN
         /\ 0 <= r.first /\ r.second <= Len(env.newSource)
         /\ SubSeq(env.newSource, r.first + 1, r.second)
              = SubSeq(env.oldSource, r.oldStart + 1, r.oldEnd)
         /\ \A j \in 1..Len(env.edits) :
              LET te == env.edits[j]
                  ns == NewStartOfEdit(env.edits, j)
              IN  /\ ~(te.start < te.end /\ te.start < r.oldEnd
                       /\ te.end > r.oldStart)
                  /\ ~(Len(te.replacement) > 0 /\ ns < r.second
                       /\ ns + Len(te.replacement) > r.first)

\* C3: the reuse ranges are non-empty, start at strictly increasing
\* offsets and do not overlap, whatever edits were added; and in the
\* visual rendering's loop no reuse range starts before CurrentOffset.
C3_ReuseRangesOrdered ==
  /\ Resolved
       => LET rs == getReusedRanges(SyntaxCache)
          IN  /\ \A i \in 1..Len(rs) : rs[i].first < rs[i].second
              /\ \A i \in 1..(Len(rs) - 1) :
                   /\ rs[i].first < rs[i + 1].first
                   /\ rs[i].second <= rs[i + 1].first
  /\ \A i \in 1..(Len(io.reparsed) - 1) :
       io.reparsed[i].start <= io.reparsed[i].end

\* The visual rendering has walked several reuse ranges around an edit.
C3_Witness ==
  /\ pc = "pf_callback" /\ ~SyntaxCache.null
  /\ options.PrintVisualReuseInfo
  /\ Len(SyntaxCache.edits) = MaxEdits
  /\ Len(getReusedRanges(SyntaxCache)) >= 2
  /\ Len(io.reparsed) = Len(getReusedRanges(SyntaxCache)) + 1

\* C5: when an edit handed to the cache lies outside the old source (its
\* start after its end, or its end after the source's), or the edits
\* overlap or are out of order, the resolver flags MalformedEdit and no
\* reuse range is returned.
C5_MalformedEditFallback ==
  (Resolved /\ ~EditsWellFormed(SyntaxCache.edits, Len(env.oldSource)))
    => (SyntaxCache.malformedEdit /\ getReusedRanges(SyntaxCache) = <<>>)

\* The parse has consulted a cache with two overlapping edits inside the
\* old source and has found nothing to reuse.
C5_Witness ==
  /\ Resolved
  /\ Len(SyntaxCache.edits) = 2
  /\ SyntaxCache.edits[1].start < SyntaxCache.edits[1].end
  /\ SyntaxCache.edits[1].end <= Len(env.oldSource)
  /\ SyntaxCache.edits[2].start < SyntaxCache.edits[1].end
  /\ SyntaxCache.edits[2].start <= SyntaxCache.edits[2].end
  /\ SyntaxCache.edits[2].end <= Len(env.oldSource)
  /\ SyntaxCache.malformedEdit
  /\ getReusedRanges(SyntaxCache) = <<>>

\* The offsets of the old source at which a token starts or the last ends.
TokenBoundaries(O) ==
  {TokenStart(tokenizeWithTrivia(O), k) :
     k \in 1..(Len(tokenizeWithTrivia(O)) + 1)}

\* C10: with one applied edit that starts at a token boundary s of the
\* old source and ends at its end, the reuse ranges cover every byte
\* before s and none reaches beyond s; and with any applied edits, a
\* reused region is reported at its old offsets shifted by the sum of
\* replacementLength - (end - start) over the edits before it.
C10_SingleEditPrefixReuse ==
  /\ (Resolved /\ env.faithful /\ Len(env.edits) = 1
      /\ env.edits[1].end = Len(env.oldSource)
      /\ env.edits[1].start \in TokenBoundaries(env.oldSource))
       => LET rs == getReusedRanges(SyntaxCache)
              s == env.edits[1].start
          IN  /\ \A b \in 0..(s - 1) :
                   \E i \in 1..Len(rs) : rs[i].first <= b /\ b < rs[i].second
              /\ \A i \in 1..Len(rs) : rs[i].second <= s
  /\ (Resolved /\ env.faithful)
       => \A i \in 1..Len(SyntaxCache.reused) :
            LET r == SyntaxCache.reused[i]
                d == DeltaAt(EditsOf(env.edits), r.oldStart)
            IN  r.first = r.oldStart + d /\ r.second = r.oldEnd + d

\* The nodes of a tree, each with the path of child indices that leads to
\* it from the root and the old offsets it spans.
RECURSIVE SubtreesOf(_, _, _)
SubtreesOf(n, pos, path) ==
  {[path |-> path, start |-> pos, end |-> pos + Width(n), type |-> n.type]}
    \cup UNION {SubtreesOf(n.children[i],
                           pos + SumSeq([j \in 1..(i - 1) |-> Width(n.children[j])]),
                           Append(path, i)) : i \in 1..Len(n.children)}

IsProperPrefix(p, q) == Len(p) < Len(q) /\ SubSeq(q, 1, Len(p)) = p

\* Some edit touches the node's span.
Touched(s, edits) ==
  \E i \in 1..Len(edits) : EditTouches(edits[i], s.start, s.end)

\* The nodes with text that no edit touches and that lie in no other such
\* node.
MaximalUntouched(tree, edits) ==
  LET all == SubtreesOf(tree, 0, <<>>)
  IN  {s \in all :
         /\ s.start < s.end
         /\ ~Touched(s, edits)
         /\ \A a \in all : IsProperPrefix(a.path, s.path) => Touched(a, edits)}

\* The indices of the reuse regions that span exactly the node.
RegionsOf(regions, s) ==
  {i \in 1..Len(regions) :
     regions[i].oldStart = s.start /\ regions[i].oldEnd = s.end}

\* C11: with well-formed edits, the reuse regions are the maximal untouched
\* subtrees of the old tree (those with text), each reported exactly once;
\* no region is reported for a node an edit touches, nor for a smaller
\* node inside a reported one.
C11_CoarsestGranularity ==
  (Resolved /\ EditsWellFormed(SyntaxCache.edits, Width(SyntaxCache.oldTree)))
    => LET rs == SyntaxCache.reused
           all == SubtreesOf(SyntaxCache.oldTree, 0, <<>>)
           M == MaximalUntouched(SyntaxCache.oldTree, SyntaxCache.edits)
       IN  /\ Len(rs) = Cardinality(M)
           /\ \A s \in M : Cardinality(RegionsOf(rs, s)) = 1
           /\ \A i \in 1..Len(rs) : \E s \in M : i \in RegionsOf(rs, s)
           /\ \A s \in all :
                (s.start < s.end /\ Touched(s, SyntaxCache.edits))
                  => RegionsOf(rs, s) = {}
           /\ \A s \in M : \A d \in all :
                (IsProperPrefix(s.path, d.path)
                 /\ <<d.start, d.end>> # <<s.start, s.end>>)
                  => RegionsOf(rs, d) = {}

\* An edit touches the root and one of two neighbours: the untouched
\* Layout node with several tokens is one region, and the tokens left of
\* a touched Layout node are regions of their own.
C11_Witness ==
  /\ Resolved
  /\ EditsWellFormed(SyntaxCache.edits, Width(SyntaxCache.oldTree))
  /\ SyntaxCache.edits # <<>>
  /\ \E s \in MaximalUntouched(SyntaxCache.oldTree, SyntaxCache.edits) :
       /\ s.type = "Layout"
       /\ s.path # <<>>
       /\ \E d \in SubtreesOf(SyntaxCache.oldTree, 0, <<>>) :
            /\ IsProperPrefix(s.path, d.path)
            /\ d.type = "Token"
            /\ d.start < d.end
            /\ <<d.start, d.end>> # <<s.start, s.end>>
       /\ RegionsOf(SyntaxCache.reused, s) # {}

\* The events of the current parseFile that are e, by their place.
EventsOf(e) == {i \in 1..Len(io.trace) : io.trace[i] = e}

\* The edit argument is not of the pattern's form, or holds a number no
\* int holds, or names a line or column the buffer S does not have.
EditArgumentInvalid(p, S) ==
  \/ ~MatchRegex(p)
  \/ GetAsIntegerFails(p)
  \/ getLocForLineCol(S, p.startLine, p.startColumn) = InvalidLoc
  \/ getLocForLineCol(S, p.endLine, p.endColumn) = InvalidLoc

\* C12: in parseFile a cache exists only if an old tree file was given and
\* deserialized; every addEdit comes after the cache's creation and before
\* the parse, in the order of the command line; the reuse ranges are read
\* only after the parse; an invalid edit argument makes parseFile return
\* failure without a parse and without the callback; and the cache is gone
\* when parseFile has returned.
C12_CacheLifecycle ==
  /\ ~SyntaxCache.null
       => /\ options.OldSyntaxTreeFilename # ""
          /\ env.oldTreeFile.readable
          /\ getSourceFileSyntax(env.oldTreeFile.content).hasValue
          /\ SyntaxCache.oldTree = getSourceFileSyntax(env.oldTreeFile.content).value
          /\ EventsOf("createCache") = {1}
  /\ \A i \in EventsOf("addEdit") :
       /\ 1 \in EventsOf("createCache")
       /\ \A j \in EventsOf("parse") : i < j
  /\ ~SyntaxCache.null
       => /\ Len(SyntaxCache.edits) = Cardinality(EventsOf("addEdit"))
          /\ Len(SyntaxCache.edits) <= Len(options.IncrementalEdits)
          /\ \A k \in 1..Len(SyntaxCache.edits) :
               SyntaxCache.edits[k].replacementLength
                 = Len(options.IncrementalEdits[k].replacement)
  /\ \A i \in EventsOf("readRanges") : \E j \in EventsOf("parse") : j < i
  /\ (run.processed = 1 /\ input.readable
      /\ \E k \in 1..Len(options.IncrementalEdits) :
           EditArgumentInvalid(options.IncrementalEdits[k], input.content))
       => /\ ExitCode = EXIT_FAILURE
          /\ EventsOf("parse") = {}
          /\ EventsOf("callback") = {}
  /\ pc \in {"exit", "dir"} => SyntaxCache.null

\* ------------------------------------------------- raw node instances
\* Section 3: raw nodes are shared by reference, so a node is an instance
\* with an identity: its place in the arena.  An instance holds its kind,
\* the instances that are its children, and the width it was built with.
Cell(type, kind, width, children) ==
  [type |-> type, kind |-> kind, width |-> width, children |-> children]

\* The widths the instances ids were built with, summed.
ChildrenWidth(a, ids) == SumSeq([i \in 1..Len(ids) |-> a[ids[i]].width])

\* The construction of a tree: every node becomes an instance of its own,
\* children before parents, and a Layout node caches its children's width.
RECURSIVE Intern(_, _)
RECURSIVE InternChildren(_, _)
InternChildren(a, cs) ==
  IF cs = <<>> THEN [arena |-> a, ids |-> <<>>]
  ELSE LET h == Intern(a, Head(cs))
           t == InternChildren(h.arena, Tail(cs))
       IN  [arena |-> t.arena, ids |-> <<h.id>> \o t.ids]

Intern(a, n) ==
  LET k == InternChildren(a, n.children)
      w == IF n.type = "Layout" THEN ChildrenWidth(k.arena, k.ids) ELSE Width(n)
  IN  [arena |-> Append(k.arena, Cell(n.type, n.kind, w, k.ids)),
       id |-> Len(k.arena) + 1]

\* A mutant of withReplacedChild: the node is changed where it is.
withReplacedChildInPlace(a, node, index, newChild) ==
  LET cs == [a[node].children EXCEPT ![index] = newChild]
  IN  [arena |-> [a EXCEPT ![node] =
                    Cell("Layout", a[node].kind, ChildrenWidth(a, cs), cs)],
       result |-> node]

\* Section 4.2, withReplacedChild(node, index, newChild): a new Layout
\* instance of the node's kind whose children are the node's, but for
\* newChild at index; no other instance is made or changed.
withReplacedChild(a, node, index, newChild) ==
  LET cs == [a[node].children EXCEPT ![index] = newChild]
  IN  [arena |-> Append(a, Cell("Layout", a[node].kind, ChildrenWidth(a, cs), cs)),
       result |-> Len(a) + 1]

\* How many withReplacedChild calls a run makes.
MaxReplacements == 2

\* The sources whose trees the calls start from: a full expression, one
\* with a missing child and trivia, a lone token.
SurgerySources == {<<"a", "+", "a">>, <<"+", SP>>, <<"a">>}

\* A client calls withReplacedChild on any Layout instance, at any of its
\* indices, with any instance as the new child (also one of the same tree).
WithReplacedChild ==
  /\ pc = "tree"
  /\ replaced.calls < MaxReplacements
  /\ \E node \in 1..Len(arena) :
       /\ arena[node].type = "Layout"
       /\ \E index \in 1..Len(arena[node].children), newChild \in 1..Len(arena) :
            LET r == withReplacedChild(arena, node, index, newChild)
            IN  /\ arena' = r.arena
                /\ replaced' = [calls |-> replaced.calls + 1,
                                original |-> replaced.original,
                                before |-> arena, node |-> node, index |-> index,
                                newChild |-> newChild, result |-> r.result]
  /\ UNCHANGED <<options, env, pc, ExitCode, dirEntries, input, SyntaxCache,
                 editIndex, SF, io, run>>

\* A tree has been parsed and built; no tool action runs.
InitTree ==
  /\ \E S \in SurgerySources :
       /\ SF = ParseSource(S)
       /\ arena = Intern(<<>>, ParseSource(S)).arena
       /\ input = File(S)
  /\ replaced = [NoReplacement EXCEPT !.original = arena]
  /\ pc = "tree"
  /\ options = Options("ParseOnly", "in", "")
  /\ env = NoEnv("tree")
  /\ ExitCode = EXIT_SUCCESS
  /\ dirEntries = <<>>
  /\ SyntaxCache = NoCache
  /\ editIndex = 1
  /\ io = EmptyIO
  /\ run = [processed |-> 0, failed |-> FALSE]

NextTree == WithReplacedChild

\* Tree surgery on the raw tree of one source.
SpecTree == InitTree /\ [][NextTree]_vars

\* The widths of the tokens below an instance, summed.
RECURSIVE TokenWidths(_, _)
TokenWidths(a, id) ==
  CASE a[id].type = "Token" -> a[id].width
    [] a[id].type = "Missing" -> 0
    [] OTHER -> SumSeq([i \in 1..Len(a[id].children) |->
                          TokenWidths(a, a[id].children[i])])

\* C13: withReplacedChild changes no instance: every instance that existed
\* before the call, and every one of the original tree, still has its
\* kind, children and width; the result is one new Layout instance of the
\* node's kind with newChild at index and the node's own child instances
\* everywhere else; and every Layout instance's width is the sum of its
\* children's widths, which is the sum of the widths of the tokens below.
C13_WithReplacedChildImmutable ==
  /\ replaced.calls > 0
       => /\ \A id \in 1..Len(replaced.before) : arena[id] = replaced.before[id]
          /\ \A id \in 1..Len(replaced.original) : arena[id] = replaced.original[id]
          /\ Len(arena) = Len(replaced.before) + 1
          /\ replaced.result = Len(arena)
          /\ arena[replaced.result].type = "Layout"
          /\ arena[replaced.result].kind = arena[replaced.node].kind
          /\ Len(arena[replaced.result].children)
               = Len(arena[replaced.node].children)
          /\ \A j \in 1..Len(arena[replaced.node].children) :
               arena[replaced.result].children[j]
                 = IF j = replaced.index THEN replaced.newChild
                   ELSE arena[replaced.node].children[j]
  /\ \A id \in 1..Len(arena) :
       arena[id].type = "Layout"
         => /\ arena[id].width = ChildrenWidth(arena, arena[id].children)
            /\ arena[id].width = TokenWidths(arena, id)

\* The last of several calls replaced a child of an earlier call's result
\* by a Layout instance that is also a child elsewhere, and the width
\* changed.
C13_Witness ==
  /\ replaced.calls = MaxReplacements
  /\ replaced.node > Len(replaced.original)
  /\ arena[replaced.newChild].type = "Layout"
  /\ \E id \in 1..Len(replaced.before) :
       \E j \in 1..Len(arena[id].children) :
         arena[id].children[j] = replaced.newChild
  /\ arena[replaced.result].width # arena[replaced.node].width
  /\ Len(arena[replaced.node].children) > 1

====
